---- MODULE Spec2Model ----
(***************************************************************************)
(* A model of ocr_converter/cli.py: the batch OCR driver.  File names are  *)
(* sequences of one-character strings, a path is a record [dir, name], the *)
(* file system is the set of regular files plus the set of directories and *)
(* a table of symbolic links,                                              *)
(* the log file is the sequence of cells written to it.  The main thread   *)
(* and the pool's worker threads each have a program counter.              *)
(***************************************************************************)
EXTENDS Integers, Sequences, FiniteSets, TLC

\* ------------------------------------------------------------------ bounds
\* the largest --jobs value explored (worker threads of the pool)
MaxWorkers == 2
\* the number of sequential runs of the tool against the same file system
MaxRuns == 2
\* the longest --extra passthrough list explored
MaxExtra == 2
\* the longest list of input files of the planning runs
MaxPlanInputs == 2
\* the longest list of input specifications of the expansion runs
MaxSpecs == 3

\* ------------------------------------------------------------- characters
Lower(c) ==
  CASE c = "P" -> "p" [] c = "D" -> "d" [] c = "F" -> "f"
    [] c = "N" -> "n" [] c = "G" -> "g" [] OTHER -> c

LowerStr(s) == [i \in 1..Len(s) |-> Lower(s[i])]

\* str.rfind(c), 1-based; 0 when c does not occur
RFind(s, c) ==
  IF \E i \in 1..Len(s) : s[i] = c
    THEN CHOOSE i \in 1..Len(s) : s[i] = c /\ \A k \in (i+1)..Len(s) : s[k] # c
    ELSE 0

\* pathlib PurePath.suffix: the last dot and what follows it, unless the dot
\* is the first or the last character of the name
PySuffix(name) ==
  LET i == RFind(name, ".")
  IN IF 1 < i /\ i < Len(name) THEN SubSeq(name, i, Len(name)) ELSE << >>

\* pathlib PurePath.stem: the name without its suffix
PyStem(name) ==
  LET i == RFind(name, ".")
  IN IF 1 < i /\ i < Len(name) THEN SubSeq(name, 1, i - 1) ELSE name

DotPdf == <<".", "p", "d", "f">>
OutMarker == <<"_", "o", "u", "t">>

ALLOWED_SUFFIXES ==
  { <<".", "p", "d", "f">>, <<".", "p", "n", "g">>, <<".", "j", "p", "g">>,
    <<".", "j", "p", "e", "g">>, <<".", "t", "i", "f">>,
    <<".", "t", "i", "f", "f">>, <<".", "b", "m", "p">> }

\* x.suffix.lower() in ALLOWED_SUFFIXES
Eligible(name) == LowerStr(PySuffix(name)) \in ALLOWED_SUFFIXES

\* ------------------------------------------------------------------ paths
\* Directories are named by the string the user would type.  "d" and "/w/d"
\* are two spellings of one directory (the working directory is /w), which
\* Path.resolve() maps to the same absolute form; Path equality does not.
NoDir == "<none>"
ResolveDir(d) ==
  CASE d = "" -> "/w"
    [] d = "d" -> "/w/d"
    [] d = "d/sub" -> "/w/d/sub"
    [] d = "out" -> "/w/out"
    [] d = "l" -> "/w/l"
    [] OTHER -> d

P(d, n) == [dir |-> d, name |-> n]

N_a_pdf == <<"a", ".", "p", "d", "f">>
N_a_out_pdf == <<"a", "_", "o", "u", "t", ".", "p", "d", "f">>

\* The symbolic links of the file system: in directory l the entry a.pdf is
\* a link to the regular file a_out.pdf of the same directory.
Links == { [link |-> P("/w/l", N_a_pdf), target |-> P("/w/l", N_a_out_pdf)] }

\* Path.resolve(): the directory in its absolute form, and a name that is a
\* symbolic link replaced by what it points to
Resolve(p) ==
  LET q == [dir |-> ResolveDir(p.dir), name |-> p.name]
  IN IF \E k \in Links : k.link = q
       THEN (CHOOSE k \in Links : k.link = q).target
       ELSE q

\* Path.with_name(name)
WithName(p, n) == [dir |-> p.dir, name |-> n]

\* build_output_path: the path returned
BuildOutputPath(inp, output_dir, inplace, suffix) ==
  IF output_dir # NoDir /\ ~inplace
    THEN P(output_dir, PyStem(inp.name) \o suffix \o DotPdf)
    ELSE WithName(inp, PyStem(inp.name) \o suffix \o DotPdf)

\* build_output_path: the directories that exist after the call
\* (output_dir.mkdir(parents=True, exist_ok=True))
BuildOutputMkdir(ds, output_dir, inplace) ==
  IF output_dir # NoDir /\ ~inplace THEN ds \cup {output_dir} ELSE ds

\* main, lines 191-195: the output planned for one input
PlanOutput(inp, output_dir, inplace, suffix) ==
  LET out == BuildOutputPath(inp, output_dir, inplace, suffix)
  IN IF Resolve(out) = Resolve(inp)
       THEN WithName(out, PyStem(out.name) \o OutMarker \o DotPdf)
       ELSE out


\* --------------------------------------------------------- the file system
\* The spellings of the directories of the model: a directory is typed as
\* parent/name and is then known by the string id.
DirTable ==
  { [parent |-> "",     name |-> <<"d">>,           id |-> "d"],
    [parent |-> "/w",   name |-> <<"d">>,           id |-> "/w/d"],
    [parent |-> "d",    name |-> <<"s", "u", "b">>, id |-> "d/sub"],
    [parent |-> "/w/d", name |-> <<"s", "u", "b">>, id |-> "/w/d/sub"],
    [parent |-> "",     name |-> <<"o", "u", "t">>, id |-> "out"],
    [parent |-> "/w",   name |-> <<"o", "u", "t">>, id |-> "/w/out"],
    [parent |-> "",     name |-> <<"l">>,           id |-> "l"],
    [parent |-> "/w",   name |-> <<"l">>,           id |-> "/w/l"] }

\* the directory a path spells, NoDir when it spells none of the table
AsDir(p) ==
  IF \E t \in DirTable : t.parent = p.dir /\ t.name = p.name
    THEN (CHOOSE t \in DirTable : t.parent = p.dir /\ t.name = p.name).id
    ELSE NoDir

\* Path.is_file(), Path.is_dir(), Path.exists() on the files fs and the
\* directories ds (both hold resolved forms)
IsFile(p, fs) == Resolve(p) \in fs
IsDir(p, ds) == AsDir(p) # NoDir /\ ResolveDir(AsDir(p)) \in ds
Exists(p, fs, ds) == IsFile(p, fs) \/ IsDir(p, ds)

N_a_png == <<"a", ".", "p", "n", "g">>
N_b_PNG == <<"b", ".", "P", "N", "G">>
N_n_txt == <<"n", ".", "t", "x", "t">>
N_star_pdf == <<"*", ".", "p", "d", "f">>

\* the regular files and directories present before the first run
Files0 ==
  { P("/w/d", N_a_pdf), P("/w/d", N_a_png), P("/w/d", N_b_PNG),
    P("/w/d", N_n_txt), P("/w/d/sub", N_a_pdf), P("/w/l", N_a_out_pdf) }
Dirs0 == {"/w", "/w/d", "/w/d/sub", "/w/l"}

\* The orders in which the elements of a set can come: the order in which
\* the operating system lists the entries of a directory and the order in
\* which Python iterates a set of strings (it depends on the hash seed) are
\* not fixed by the code, so every order is possible.
RECURSIVE Orders(_)
Orders(S) ==
  IF S = {} THEN { << >> }
  ELSE UNION { { <<e>> \o s : s \in Orders(S \ {e}) } : e \in S }

\* the lists made by taking one list of each set of ss, one after the other
RECURSIVE Chain(_)
Chain(ss) ==
  IF ss = << >> THEN { << >> }
  ELSE { h \o r : h \in Head(ss), r \in Chain(Tail(ss)) }

\* the names of the entries (files, links and directories) of directory d
EntryNames(d, fs, ds) ==
  { f.name : f \in { g \in fs : g.dir = ResolveDir(d) } }
    \cup { k.link.name : k \in { m \in Links : m.link.dir = ResolveDir(d) } }
    \cup { t.name : t \in { u \in DirTable : u.parent = d /\ ResolveDir(u.id) \in ds } }

\* Path.iterdir(): the children of d, spelled below d (they come in some
\* order, see Orders)
IterDir(d, fs, ds) == { P(d, n) : n \in EntryNames(d, fs, ds) }

\* the directories directly in d
SubDirs(d, ds) ==
  { t.id : t \in { u \in DirTable : u.parent = d /\ ResolveDir(u.id) \in ds } }

EndsWith(s, e) ==
  Len(s) >= Len(e) /\ SubSeq(s, Len(s) - Len(e) + 1, Len(s)) = e

\* Path.rglob("*" + ext): the lists it can yield.  The entries of d whose
\* name ends with ext come first, in the order d is listed, then the same
\* for each directory in d, in the order d is listed (the match is
\* case-sensitive and is not restricted to regular files).
RECURSIVE RGlob(_, _, _, _)
RGlob(d, ext, fs, ds) ==
  LET here == Orders({ q \in IterDir(d, fs, ds) : EndsWith(q.name, ext) })
  IN UNION { Chain(<<here>> \o [i \in 1..Len(subs) |-> RGlob(subs[i], ext, fs, ds)]) :
               subs \in Orders(SubDirs(d, ds)) }

\* fnmatch of a name against a pattern whose only wildcard is "*"
RECURSIVE FnMatch(_, _)
FnMatch(pat, s) ==
  IF pat = << >> THEN s = << >>
  ELSE IF Head(pat) = "*"
    THEN FnMatch(Tail(pat), s) \/ (s # << >> /\ FnMatch(pat, Tail(s)))
    ELSE s # << >> /\ Head(s) = Head(pat) /\ FnMatch(Tail(pat), Tail(s))

\* glob.glob(raw): the entries of raw's directory matching raw's name (they
\* come in the order the directory is listed); a name starting with a dot is
\* matched only by a pattern that starts with one
GlobGlob(raw, fs, ds) ==
  IF ResolveDir(raw.dir) \notin ds THEN {}
  ELSE { q \in IterDir(raw.dir, fs, ds) :
           FnMatch(raw.name, q.name) /\ (Head(q.name) = "." => Head(raw.name) = ".") }

\* expand_inputs, lines 41-59: the lists one raw specification can
\* contribute.  A listing that is filtered is the entries that pass, in any
\* order; the extensions are tried in any order, and those that find nothing
\* add nothing wherever they come.
ExpandOne(raw, recursive, fs, ds) ==
  IF Exists(raw, fs, ds)
    THEN IF IsDir(raw, ds)
      THEN IF recursive
        THEN LET finds == { e \in ALLOWED_SUFFIXES :
                              RGlob(AsDir(raw), e, fs, ds) # { << >> } }
             IN UNION { Chain([i \in 1..Len(exts) |-> RGlob(AsDir(raw), exts[i], fs, ds)]) :
                          exts \in Orders(finds) }
        ELSE Orders({ q \in IterDir(AsDir(raw), fs, ds) :
                        IsFile(q, fs) /\ Eligible(q.name) })
      ELSE IF Eligible(raw.name) THEN { <<raw>> } ELSE { << >> }
    ELSE Orders({ q \in GlobGlob(raw, fs, ds) : IsFile(q, fs) /\ Eligible(q.name) })

\* a variant of Dedupe: of a path that occurs more than once the last
\* occurrence is the one kept
RECURSIVE DedupeLast(_, _)
DedupeLast(ps, seen) ==
  IF ps = << >> THEN << >>
  ELSE IF \E i \in 2..Len(ps) : ps[i] = Head(ps)
    THEN DedupeLast(Tail(ps), seen)
  ELSE <<Head(ps)>> \o DedupeLast(Tail(ps), seen)

\* expand_inputs, lines 61-67: first occurrences only, order kept
RECURSIVE Dedupe(_, _)
Dedupe(ps, seen) ==
  IF ps = << >> THEN << >>
  ELSE IF Head(ps) \in seen THEN Dedupe(Tail(ps), seen)
  ELSE <<Head(ps)>> \o Dedupe(Tail(ps), seen \cup {Head(ps)})

\* expand_inputs: the values it can end with, paths being the list before
\* line 60 and unique the list returned
expand_inputs(raws, recursive, fs, ds) ==
  { [paths |-> ps, unique |-> Dedupe(ps, {})] :
      ps \in Chain([i \in 1..Len(raws) |-> ExpandOne(raws[i], recursive, fs, ds)]) }

\* ---------------------------------------------------------------- run_ocr
\* str(path), as the sequence of its pieces
StrOf(p) == <<p.dir, "/">> \o p.name

\* list.insert(i, x) and the slice assignment list[i:i] = xs (i is 0-based)
PyInsert(s, i, e) == SubSeq(s, 1, i) \o <<e>> \o SubSeq(s, i + 1, Len(s))
PySplice(s, i, xs) == SubSeq(s, 1, i) \o xs \o SubSeq(s, i + 1, Len(s))

ExePath == <<"/usr/bin/ocrmypdf">>

\* a variant of BuildCmd: each option is put behind the ones before it
BuildCmdAppending(exe, inp, out, lang, force, pdfa, extra_args) ==
  <<exe>> \o <<IF force THEN <<"--force-ocr">> ELSE <<"--skip-text">> >>
    \o (IF pdfa THEN << <<"--pdfa-2">> >> ELSE << >>)
    \o extra_args
    \o << <<"--optimize">>, <<"3">>, <<"--language">>, lang, StrOf(inp), StrOf(out)>>

\* run_ocr, lines 93-109: the engine's argument list
BuildCmd(exe, inp, out, lang, force, pdfa, extra_args) ==
  LET c0 == <<exe, <<"--optimize">>, <<"3">>, <<"--language">>, lang,
              StrOf(inp), StrOf(out)>>
      c1 == IF force THEN PyInsert(c0, 1, <<"--force-ocr">>)
                     ELSE PyInsert(c0, 1, <<"--skip-text">>)
      c2 == IF pdfa THEN PyInsert(c1, 1, <<"--pdfa-2">>) ELSE c1
  IN IF extra_args # << >> THEN PySplice(c2, 1, extra_args) ELSE c2

\* the text of a skipped job's result
SkipText == <<"skipped: exists">>

\* the caps on the captured text (in pieces of text here)
HeadCap == 1200
LogCap == 2000

Min(a, b) == IF a < b THEN a ELSE b
Prefix(s, n) == SubSeq(s, 1, Min(Len(s), n))

NoPath == P(NoDir, << >>)
JobResult(inp, out, rc, dur, head) ==
  [input_path |-> inp, output_path |-> out, returncode |-> rc,
   duration_s |-> dur, log_head |-> head]
NoResult == JobResult(NoPath, NoPath, 0, 0, << >>)

\* a variant of SkipTest: the overwrite flag is not consulted
SkipTestExistsOnly(overwrite, out, fs, ds) == Exists(out, fs, ds)

\* run_ocr, line 89: the skip test
SkipTest(overwrite, out, fs, ds) == ~overwrite /\ Exists(out, fs, ds)

\* run_ocr, line 91
SkipResult(inp, out) == JobResult(inp, out, 0, 0, SkipText)

\* run_ocr, lines 114-115, for an engine outcome o = [rc, text, dur]
EngineResult(inp, out, o) == JobResult(inp, out, o.rc, o.dur, Prefix(o.text, HeadCap))

\* How an engine invocation can end: its exit code, its combined output and
\* the time it took (in seconds, never 0 here).  Whether it has written its
\* output file by then is a step of its own (WriteOutput): run_ocr does not
\* look at the file, so an engine can end with any exit code with or without
\* having written it.
Outcomes ==
  { [rc |-> 0,   text |-> << >>,              dur |-> 1],
    [rc |-> 1,   text |-> <<"error", "\n">>,  dur |-> 1],
    [rc |-> 127, text |-> SkipText,           dur |-> 2] }

\* ---------------------------------------------------------------- the log
EOL == <<"\r\n">>
HeaderRow ==
  << <<"When">>, <<"Input">>, <<"Output">>, <<"ReturnCode">>,
     <<"DurationSec">>, <<"OutputLogHead">>, EOL >>

\* str(int) and the format "%.2f" of the durations of the model
IntStr(n) ==
  CASE n = 0 -> <<"0">> [] n = 1 -> <<"1">> [] n = 2 -> <<"2">>
    [] n = 127 -> <<"1", "2", "7">> [] OTHER -> <<"?">>
DurStr(d) == IntStr(d) \o <<".", "0", "0">>

\* .replace("\n", " ").replace("\r", " ")
Flatten(t) == [i \in 1..Len(t) |-> IF t[i] \in {"\n", "\r"} THEN " " ELSE t[i]]

\* append_log, lines 129-138: the cells of one row, the line end last
LogRow(res) ==
  << <<"now">>, StrOf(res.input_path), StrOf(res.output_path),
     IntStr(res.returncode), DurStr(res.duration_s),
     Prefix(Flatten(res.log_head), LogCap), EOL >>

\* append_log, lines 127-128: the writes that reach the file when the text
\* file object is closed: the buffered row, in one write
RowWrites(row) == <<row>>

\* a variant of HeaderNeeded: the header is written on every call
HeaderNeededAlways(exists, content) == TRUE

\* a variant of HeaderNeeded: the header is never written
HeaderNeededNever(exists, content) == FALSE

\* write_log_header_if_needed, line 119
HeaderNeeded(exists, content) == ~exists \/ Len(content) = 0

\* the rows of a log: its cells cut after each line end
RECURSIVE Rows(_)
Rows(cells) ==
  IF cells = << >> THEN << >>
  ELSE IF \E i \in 1..Len(cells) : cells[i] = EOL
    THEN LET k == CHOOSE i \in 1..Len(cells) :
                    cells[i] = EOL /\ \A m \in 1..(i-1) : cells[m] # EOL
         IN <<SubSeq(cells, 1, k)>> \o Rows(SubSeq(cells, k + 1, Len(cells)))
    ELSE <<cells>>

\* ------------------------------------------------------------ command line
R_a_pdf == P("d", N_a_pdf)
R_a_png == P("d", N_a_png)
R_abs_a_pdf == P("/w/d", N_a_pdf)
R_sub_a_pdf == P("d/sub", N_a_pdf)
R_n_txt == P("d", N_n_txt)
R_dir_d == P("", <<"d">>)
R_glob_pdf == P("d", N_star_pdf)

S_none == << >>
S_ocr == <<"_", "o", "c", "r">>

\* the defaults of parse_args (lines 151-157)
DefaultLang == <<"deu+eng">>
DefaultForce == FALSE
DefaultPdfa == FALSE
DefaultExtra == << >>

\* The argument vectors of the concurrent runs.  inputs is the list of raw
\* specifications; the engine options stay at their defaults.  Runs on files
\* and a glob (one or two jobs) take every mode.
FileVectors ==
  [ inputs : { <<R_a_pdf>>, <<R_a_pdf, R_a_png>>, <<R_a_pdf, R_sub_a_pdf>>,
               <<R_n_txt>>, <<R_glob_pdf, R_a_pdf>> },
    output : {NoDir, "out", "d"}, inplace : BOOLEAN,
    suffix : {S_none, S_ocr}, jobs : 0..MaxWorkers, recursive : BOOLEAN,
    overwrite : BOOLEAN, dry_run : BOOLEAN,
    lang : {DefaultLang}, force : {DefaultForce}, pdfa : {DefaultPdfa},
    extra : {DefaultExtra} ]

\* Runs on the directory d (three jobs, planned in any order) are in place.
DirVectors ==
  [ inputs : { <<R_dir_d>> },
    output : {NoDir}, inplace : {FALSE},
    suffix : {S_ocr}, jobs : 1..MaxWorkers, recursive : BOOLEAN,
    overwrite : {FALSE}, dry_run : {FALSE},
    lang : {DefaultLang}, force : {DefaultForce}, pdfa : {DefaultPdfa},
    extra : {DefaultExtra} ]

ArgVectors == FileVectors \cup DirVectors

\* the argument vectors of the repeated runs: one worker, the same vector in
\* every run
RunVectors ==
  [ inputs : { <<R_a_pdf>>, <<R_a_pdf, R_a_png>>, <<R_glob_pdf, R_a_pdf>> },
    output : {NoDir, "out"}, inplace : {FALSE},
    suffix : {S_none, S_ocr}, jobs : {1}, recursive : {FALSE},
    overwrite : {FALSE}, dry_run : BOOLEAN,
    lang : {DefaultLang}, force : {DefaultForce}, pdfa : {DefaultPdfa},
    extra : {DefaultExtra} ]
  \cup
  [ inputs : { <<R_a_pdf>> },
    output : {NoDir, "out"}, inplace : {FALSE},
    suffix : {S_ocr}, jobs : {1}, recursive : {FALSE},
    overwrite : {TRUE}, dry_run : {FALSE},
    lang : {DefaultLang}, force : {DefaultForce}, pdfa : {DefaultPdfa},
    extra : {DefaultExtra} ]

\* the argument vectors of the runs that explore the engine's command line
ExtraArgs == { <<"--clean">>, <<"-v">> }
RECURSIVE SeqsUpTo(_, _)
SeqsUpTo(S, n) ==
  IF n = 0 THEN { << >> }
  ELSE LET shorter == SeqsUpTo(S, n - 1)
       IN shorter \cup { Append(t, e) : t \in shorter, e \in S }

CmdVectors ==
  [ inputs : { <<R_a_pdf>> }, output : {NoDir, "out"}, inplace : {FALSE},
    suffix : {S_ocr}, jobs : {1}, recursive : {FALSE},
    overwrite : BOOLEAN, dry_run : {FALSE},
    lang : {DefaultLang, <<"eng">>}, force : BOOLEAN, pdfa : BOOLEAN,
    extra : SeqsUpTo(ExtraArgs, MaxExtra) ]

\* the planning runs: dry runs over more names, suffixes and directories
N_a_PDF == <<"a", ".", "P", "D", "F">>
N_a_b_pdf == <<"a", ".", "b", ".", "p", "d", "f">>
PlanNames == { N_a_pdf, N_a_PDF, N_a_png, N_a_out_pdf, N_a_b_pdf }
PlanPaths ==
  { P(d, n) : d \in {"d", "/w/d", "d/sub"}, n \in PlanNames }
    \cup { P("l", N_a_pdf), P("l", N_a_out_pdf) }
PlanFiles == { Resolve(p) : p \in PlanPaths }
PlanLists ==
  { l \in SeqsUpTo(PlanPaths, MaxPlanInputs) :
      l # << >> /\ \A i, k \in 1..Len(l) : i # k => l[i] # l[k] }

PlanVectors ==
  [ inputs : PlanLists, output : {NoDir, "out", "d", "/w/d"}, inplace : {FALSE},
    suffix : {S_none, S_ocr, OutMarker}, jobs : {1}, recursive : {FALSE},
    overwrite : {FALSE}, dry_run : {TRUE},
    lang : {DefaultLang}, force : {DefaultForce}, pdfa : {DefaultPdfa},
    extra : {DefaultExtra} ]

\* the expansion runs: lists of input specifications that repeat and overlap
\* (files under two spellings, a directory, two globs)
N_a_star == <<"a", ".", "*">>
R_glob_a == P("d", N_a_star)
ExpandRaws ==
  { R_a_pdf, R_abs_a_pdf, R_a_png, R_sub_a_pdf, R_n_txt, R_dir_d, R_glob_pdf,
    R_glob_a }
ExpandVectors ==
  [ inputs : SeqsUpTo(ExpandRaws, MaxSpecs) \ { << >> },
    output : {NoDir}, inplace : {FALSE},
    suffix : {S_ocr}, jobs : {1}, recursive : BOOLEAN,
    overwrite : {FALSE}, dry_run : {TRUE},
    lang : {DefaultLang}, force : {DefaultForce}, pdfa : {DefaultPdfa},
    extra : {DefaultExtra} ]

\* the argument vectors of the runs checked under fair scheduling: runs that
\* dispatch two or three jobs to one or more workers
FairVectors ==
  [ inputs : { <<R_a_pdf, R_a_png>>, <<R_dir_d>> },
    output : {NoDir}, inplace : {FALSE},
    suffix : {S_ocr}, jobs : 1..MaxWorkers, recursive : {TRUE},
    overwrite : {FALSE}, dry_run : {FALSE},
    lang : {DefaultLang}, force : {DefaultForce}, pdfa : {DefaultPdfa},
    extra : {DefaultExtra} ]

\* ------------------------------------------------------------------ state
VARIABLES
  argv,       \* the argument vector of the runs
  exeFound,   \* whether shutil.which finds the engine
  files,      \* the regular files that exist (resolved paths)
  dirs,       \* the directories that exist (resolved)
  logExists,  \* whether the log file exists
  log,        \* the cells of the log file
  run,        \* the number of the current run
  prevRet,    \* what main returned in the run before (NoRet: nothing)
  pc,         \* where the main thread is
  args,       \* the namespace parse_args returned
  exe,        \* main's exe
  ret,        \* the value main returned, or the status the process exited with
  paths,      \* expand_inputs' paths, before duplicates are removed
  inputs,     \* main's inputs
  jobs,       \* main's jobs, a sequence of [inp, out]
  printed,    \* the pairs a dry run printed
  futs,       \* the futures submitted so far: [st, res]
  queue,      \* the pool's work queue (job numbers)
  wk,         \* the worker threads: [pc, job, res, buf]
  collected,  \* the futures as_completed has yielded
  results, failures, skipped,
  summary,    \* the counts of the summary line
  engine      \* the engine invocations of this run: [job, cmd, existed]

vars == <<argv, exeFound, files, dirs, logExists, log, run, prevRet, pc, args,
          exe, ret,
          paths, inputs, jobs, printed, futs, queue, wk, collected, results,
          failures, skipped, summary, engine>>

envVars == <<argv, exeFound, run, prevRet>>
fsVars == <<files, dirs, logExists, log>>
planVars == <<paths, inputs, jobs, printed>>
poolVars == <<futs, queue, wk, engine>>
tallyVars == <<collected, results, failures, skipped, summary>>

Workers == 1..MaxWorkers
IdleWorker == [pc |-> "idle", job |-> 0, res |-> NoResult, buf |-> << >>]
NoArgs == [output |-> NoDir, inplace |-> FALSE, jobs |-> 0]
NoSummary == [inputs |-> 0, processed |-> 0, skipped |-> 0, failures |-> 0]
NoRet == -1
NoExe == << >>

\* the state of a run before main is entered
RunStart ==
  /\ pc = "parse" /\ args = NoArgs /\ exe = NoExe /\ ret = NoRet
  /\ paths = << >> /\ inputs = << >> /\ jobs = << >> /\ printed = << >>
  /\ futs = << >> /\ queue = << >> /\ wk = [w \in Workers |-> IdleWorker]
  /\ collected = {} /\ results = << >> /\ failures = 0 /\ skipped = 0
  /\ summary = NoSummary /\ engine = {}

\* one run, any number of workers
Init ==
  /\ argv \in ArgVectors
  /\ exeFound \in BOOLEAN
  /\ files = Files0 /\ dirs = Dirs0
  /\ logExists \in BOOLEAN /\ log = << >>
  /\ run = 1 /\ prevRet = NoRet
  /\ RunStart

\* repeated runs on the same file system and log
InitRuns ==
  /\ argv \in RunVectors
  /\ exeFound \in BOOLEAN
  /\ files = Files0 /\ dirs = Dirs0
  /\ logExists \in BOOLEAN /\ log = << >>
  /\ run = 1 /\ prevRet = NoRet
  /\ RunStart

\* one run of one job, any engine options
InitCmd ==
  /\ argv \in CmdVectors
  /\ exeFound = TRUE
  /\ files = Files0 /\ dirs = Dirs0
  /\ logExists = FALSE /\ log = << >>
  /\ run = 1 /\ prevRet = NoRet
  /\ RunStart

\* one dry run
InitPlan ==
  /\ argv \in PlanVectors
  /\ exeFound = TRUE
  /\ files = PlanFiles /\ dirs = Dirs0
  /\ logExists = FALSE /\ log = << >>
  /\ run = 1 /\ prevRet = NoRet
  /\ RunStart

\* one run up to the expansion of its input specifications
InitExpand ==
  /\ argv \in ExpandVectors
  /\ exeFound = TRUE
  /\ files = Files0 /\ dirs = Dirs0
  /\ logExists = FALSE /\ log = << >>
  /\ run = 1 /\ prevRet = NoRet
  /\ RunStart

\* one run that dispatches jobs
InitFair ==
  /\ argv \in FairVectors
  /\ exeFound = TRUE
  /\ files = Files0 /\ dirs = Dirs0
  /\ logExists = FALSE /\ log = << >>
  /\ run = 1 /\ prevRet = NoRet
  /\ RunStart

\* ------------------------------------------------------------- main thread
\* which_ocrmypdf, lines 33-35
which_ocrmypdf(found) == IF found THEN ExePath ELSE NoExe

\* a variant of ExeMissing: the lookup's result is never tested
ExeMissingNever(e) == FALSE

\* main, line 179: "if not exe"
ExeMissing(e) == e = NoExe

\* main, lines 234 and 236: the tally of one result
IsFailure(res) == res.returncode # 0 /\ res.log_head # SkipText
IsSkip(res) == res.log_head = SkipText

\* main, lines 231-232: where main goes after a future's result() returned
\* res, n results being collected and total futures awaited
AfterResult(res, n, total) == IF n = total THEN "summary" ELSE "collect"

\* a variant of FinalStatus: the number of failures is returned as it is
FinalStatusCount(f) == f

\* main, line 251
FinalStatus(f) == IF f > 0 THEN 1 ELSE 0

\* a variant of JobsTooFew: only a negative number of workers is refused
JobsTooFewNegative(n) == n < 0

\* parse_args, line 170
JobsTooFew(n) == n < 1

\* parse_args, lines 165-172
ParseArgs ==
  /\ pc = "parse"
  /\ IF argv.output # NoDir /\ argv.inplace
       THEN pc' = "exited" /\ ret' = 2 /\ args' = args
       ELSE LET inplace == IF argv.output = NoDir /\ ~argv.inplace
                             THEN TRUE ELSE argv.inplace
            IN IF JobsTooFew(argv.jobs)
                 THEN pc' = "exited" /\ ret' = 2 /\ args' = args
                 ELSE /\ pc' = "which" /\ ret' = ret
                      /\ args' = [output |-> argv.output, inplace |-> inplace,
                                  jobs |-> argv.jobs]
  /\ UNCHANGED <<envVars, fsVars, exe, planVars, poolVars, tallyVars>>

\* main, lines 178-181
WhichOcrmypdf ==
  /\ pc = "which"
  /\ exe' = which_ocrmypdf(exeFound)
  /\ IF ExeMissing(exe') THEN pc' = "returned" /\ ret' = 127
                         ELSE pc' = "expand" /\ ret' = ret
  /\ UNCHANGED <<envVars, fsVars, args, planVars, poolVars, tallyVars>>

\* main, lines 183-186
ExpandInputs ==
  /\ pc = "expand"
  /\ \E r \in expand_inputs(argv.inputs, argv.recursive, files, dirs) :
       paths' = r.paths /\ inputs' = r.unique
  /\ IF inputs' = << >> THEN pc' = "returned" /\ ret' = 0
                        ELSE pc' = "plan" /\ ret' = ret
  /\ UNCHANGED <<envVars, fsVars, args, exe, jobs, printed, poolVars, tallyVars>>

\* main, lines 190-195: one turn of the planning loop
PlanJob ==
  /\ pc = "plan"
  /\ Len(jobs) < Len(inputs)
  /\ LET inp == inputs[Len(jobs) + 1]
     IN /\ jobs' = Append(jobs, [inp |-> inp,
                     out |-> PlanOutput(inp, args.output, args.inplace, argv.suffix)])
        /\ dirs' = BuildOutputMkdir(dirs, ResolveDir(args.output), args.inplace)
  /\ UNCHANGED <<envVars, files, logExists, log, pc, args, exe, ret, paths,
                 inputs, printed, poolVars, tallyVars>>

\* main, lines 197-201
DryRun ==
  /\ pc = "plan"
  /\ Len(jobs) = Len(inputs)
  /\ IF argv.dry_run
       THEN printed' = jobs /\ pc' = "returned" /\ ret' = 0
       ELSE printed' = printed /\ pc' = "header" /\ ret' = ret
  /\ UNCHANGED <<envVars, fsVars, args, exe, paths, inputs, jobs, poolVars, tallyVars>>

\* main, line 203: write_log_header_if_needed, lines 118-123 (the file is
\* opened for writing, which empties it, and the header is written)
WriteLogHeader ==
  /\ pc = "header"
  /\ IF HeaderNeeded(logExists, log)
       THEN logExists' = TRUE /\ log' = HeaderRow
       ELSE UNCHANGED <<logExists, log>>
  /\ pc' = "submit"
  /\ UNCHANGED <<envVars, files, dirs, args, exe, ret, planVars, poolVars,
                 tallyVars>>

\* main, line 230: pool.submit of the next job
Submit ==
  /\ pc = "submit"
  /\ Len(futs) < Len(jobs)
  /\ futs' = Append(futs, [st |-> "pending", res |-> NoResult])
  /\ queue' = Append(queue, Len(futs) + 1)
  /\ pc' = IF Len(futs') = Len(jobs) THEN "collect" ELSE pc
  /\ UNCHANGED <<envVars, fsVars, args, exe, ret, planVars, wk, engine, tallyVars>>

\* main, lines 231-237: as_completed yields a finished future
Collect(j) ==
  /\ pc = "collect"
  /\ j \in 1..Len(futs) /\ j \notin collected
  /\ futs[j].st = "finished"
  /\ LET res == futs[j].res
     IN /\ results' = Append(results, res)
        /\ failures' = IF IsFailure(res) THEN failures + 1 ELSE failures
        /\ skipped' = IF IsSkip(res) THEN skipped + 1 ELSE skipped
        /\ pc' = AfterResult(res, Cardinality(collected) + 1, Len(futs))
  /\ collected' = collected \cup {j}
  /\ UNCHANGED <<envVars, fsVars, args, exe, ret, planVars, poolVars, summary>>

\* main, line 232: as_completed yields a future whose job raised, result()
\* raises the job's exception again and the loop is left; leaving the with
\* block waits for the pool
ResultRaises(j) ==
  /\ pc = "collect"
  /\ j \in 1..Len(futs) /\ j \notin collected
  /\ futs[j].st = "raised"
  /\ pc' = "unwind"
  /\ UNCHANGED <<envVars, fsVars, args, exe, ret, planVars, poolVars, tallyVars>>

\* main, line 229: the with block is left by the exception once the pool has
\* shut down (the queued jobs are still run), and the exception leaves main:
\* no summary, no value returned
PoolExitRaises ==
  /\ pc = "unwind"
  /\ queue = << >>
  /\ \A w \in Workers : wk[w].pc = "idle"
  /\ pc' = "raised"
  /\ UNCHANGED <<envVars, fsVars, args, exe, ret, planVars, poolVars, tallyVars>>

\* main, lines 244-251 (the with block has been left: the pool has shut down
\* and every worker has finished)
Summary ==
  /\ pc = "summary"
  /\ queue = << >>
  /\ \A w \in Workers : wk[w].pc = "idle"
  /\ summary' = [inputs |-> Len(jobs), processed |-> Len(jobs) - skipped,
                 skipped |-> skipped, failures |-> failures]
  /\ ret' = FinalStatus(failures)
  /\ pc' = "returned"
  /\ UNCHANGED <<envVars, fsVars, args, exe, planVars, poolVars, collected,
                 results, failures, skipped>>

\* a variant of PoolThreads: the pool starts one thread more than asked for
PoolThreadsOneMore(n) == 1..(n + 1)

\* main, line 229: the threads ThreadPoolExecutor(max_workers=n) may start
PoolThreads(n) == 1..n

\* ---------------------------------------------------------- worker threads
\* a pool thread takes the next work item (the lowest idle thread does)
TakeJob(w) ==
  /\ w \in PoolThreads(args.jobs)
  /\ wk[w].pc = "idle"
  /\ \A v \in 1..(w - 1) : wk[v].pc # "idle"
  /\ queue # << >>
  /\ wk' = [wk EXCEPT ![w] = [pc |-> "check", job |-> Head(queue),
                              res |-> NoResult, buf |-> << >>]]
  /\ futs' = [futs EXCEPT ![Head(queue)].st = "running"]
  /\ queue' = Tail(queue)
  /\ UNCHANGED <<envVars, fsVars, pc, args, exe, ret, planVars, engine, tallyVars>>

\* run_ocr, lines 89-91
SkipCheck(w) ==
  /\ wk[w].pc = "check"
  /\ LET job == jobs[wk[w].job]
     IN IF SkipTest(argv.overwrite, job.out, files, dirs)
          THEN wk' = [wk EXCEPT ![w].pc = "log",
                                ![w].res = SkipResult(job.inp, job.out)]
          ELSE wk' = [wk EXCEPT ![w].pc = "engine"]
  /\ UNCHANGED <<envVars, fsVars, pc, args, exe, ret, planVars, futs, queue,
                 engine, tallyVars>>

\* run_ocr, lines 93-111: the command is built and subprocess.run starts the
\* engine; the thread waits for it while the other threads go on
StartEngine(w) ==
  /\ wk[w].pc = "engine"
  /\ LET job == jobs[wk[w].job]
     IN engine' = engine \cup
          {[job |-> wk[w].job,
            cmd |-> BuildCmd(exe, job.inp, job.out, argv.lang,
                             argv.force, argv.pdfa, argv.extra),
            existed |-> Exists(job.out, files, dirs)]}
  /\ wk' = [wk EXCEPT ![w].pc = "running"]
  /\ UNCHANGED <<envVars, fsVars, pc, args, exe, ret, planVars, futs, queue,
                 tallyVars>>

\* the running engine creates its output file
WriteOutput(w) ==
  /\ wk[w].pc = "running"
  /\ Resolve(jobs[wk[w].job].out) \notin files
  /\ files' = files \cup {Resolve(jobs[wk[w].job].out)}
  /\ UNCHANGED <<envVars, dirs, logExists, log, pc, args, exe, ret, planVars,
                 poolVars, tallyVars>>

\* run_ocr, lines 111-115: the engine ends with outcome o and subprocess.run
\* returns
EndEngine(w, o) ==
  /\ wk[w].pc = "running"
  /\ LET job == jobs[wk[w].job]
     IN wk' = [wk EXCEPT ![w].pc = "log",
                         ![w].res = EngineResult(job.inp, job.out, o)]
  /\ UNCHANGED <<envVars, fsVars, pc, args, exe, ret, planVars, futs, queue,
                 engine, tallyVars>>

\* run_ocr, line 112: subprocess.run raises (the executable cannot be run, or
\* the engine has ended and its output cannot be decoded as text); nothing
\* catches the exception, so run_ocr and submit_job are left without a result
\* and without a log row, the future holds the exception and the thread is
\* free for the next work item
EngineRaises(w) ==
  /\ wk[w].pc = "running"
  /\ futs' = [futs EXCEPT ![wk[w].job].st = "raised"]
  /\ wk' = [wk EXCEPT ![w] = IdleWorker]
  /\ UNCHANGED <<envVars, fsVars, pc, args, exe, ret, planVars, queue, engine,
                 tallyVars>>

\* append_log, lines 127-138: the file is opened for appending and the row is
\* written into the file object
WriteRow(w) ==
  /\ wk[w].pc = "log"
  /\ wk' = [wk EXCEPT ![w].pc = "close", ![w].buf = RowWrites(LogRow(wk[w].res))]
  /\ logExists' = TRUE
  /\ UNCHANGED <<envVars, files, dirs, log, pc, args, exe, ret, planVars, futs,
                 queue, engine, tallyVars>>

\* append_log, line 127: leaving the with block closes the file, and each
\* pending write is appended at the end of the file; after the last one
\* append_log returns
CloseLog(w) ==
  /\ wk[w].pc = "close"
  /\ log' = log \o Head(wk[w].buf)
  /\ wk' = IF Tail(wk[w].buf) = << >>
             THEN [wk EXCEPT ![w].pc = "return", ![w].buf = << >>]
             ELSE [wk EXCEPT ![w].buf = Tail(wk[w].buf)]
  /\ UNCHANGED <<envVars, files, dirs, logExists, pc, args, exe, ret, planVars,
                 futs, queue, engine, tallyVars>>

\* submit_job, line 227: the result is returned, the future is finished and
\* the thread is free for the next work item
FinishJob(w) ==
  /\ wk[w].pc = "return"
  /\ futs' = [futs EXCEPT ![wk[w].job] = [st |-> "finished", res |-> wk[w].res]]
  /\ wk' = [wk EXCEPT ![w] = IdleWorker]
  /\ UNCHANGED <<envVars, fsVars, pc, args, exe, ret, planVars, queue, engine,
                 tallyVars>>

\* the tool is run again, with the same arguments, on what the last run left
NewRun ==
  /\ pc \in {"returned", "exited", "raised"}
  /\ run < MaxRuns
  /\ run' = run + 1
  /\ prevRet' = IF pc = "returned" THEN ret ELSE NoRet
  /\ pc' = "parse" /\ args' = NoArgs /\ exe' = NoExe /\ ret' = NoRet
  /\ paths' = << >> /\ inputs' = << >> /\ jobs' = << >> /\ printed' = << >>
  /\ futs' = << >> /\ queue' = << >> /\ wk' = [w \in Workers |-> IdleWorker]
  /\ collected' = {} /\ results' = << >> /\ failures' = 0 /\ skipped' = 0
  /\ summary' = NoSummary /\ engine' = {}
  /\ UNCHANGED <<argv, exeFound, fsVars>>

Next ==
  \/ ParseArgs \/ WhichOcrmypdf \/ ExpandInputs \/ PlanJob \/ DryRun
  \/ WriteLogHeader \/ Submit \/ Summary \/ PoolExitRaises
  \/ \E j \in 1..Len(jobs) : Collect(j) \/ ResultRaises(j)
  \/ \E w \in Workers : TakeJob(w) \/ SkipCheck(w) \/ StartEngine(w) \/ WriteOutput(w)
  \/ \E w \in Workers, o \in Outcomes : EndEngine(w, o)
  \/ \E w \in Workers : EngineRaises(w)
  \/ \E w \in Workers : WriteRow(w) \/ CloseLog(w) \/ FinishJob(w)

NextRuns == Next \/ NewRun

NextPlan == ParseArgs \/ WhichOcrmypdf \/ ExpandInputs \/ PlanJob \/ DryRun

NextExpand == ParseArgs \/ WhichOcrmypdf \/ ExpandInputs

\* the steps of the main thread and of pool thread w
MainStep ==
  \/ ParseArgs \/ WhichOcrmypdf \/ ExpandInputs \/ PlanJob \/ DryRun
  \/ WriteLogHeader \/ Submit \/ Summary \/ PoolExitRaises
  \/ \E j \in 1..Len(jobs) : Collect(j) \/ ResultRaises(j)
WorkerStep(w) ==
  \/ TakeJob(w) \/ SkipCheck(w) \/ StartEngine(w) \/ WriteOutput(w)
  \/ \E o \in Outcomes : EndEngine(w, o)
  \/ EngineRaises(w)
  \/ WriteRow(w) \/ CloseLog(w) \/ FinishJob(w)

\* every thread that can take a step eventually takes one (the operating
\* system schedules each thread), and a call of the engine that was started
\* ends, by returning or by raising
Fairness == WF_vars(MainStep) /\ \A w \in Workers : WF_vars(WorkerStep(w))

Spec == Init /\ [][Next]_vars
SpecRuns == InitRuns /\ [][NextRuns]_vars
SpecCmd == InitCmd /\ [][Next]_vars
SpecPlan == InitPlan /\ [][NextPlan]_vars
SpecExpand == InitExpand /\ [][NextExpand]_vars
SpecFair == InitFair /\ [][Next]_vars /\ Fairness

\* ----------------------------------------------------------------- claims
Dispatched == pc = "returned" /\ summary # NoSummary
EngineJobs == { e.job : e \in engine }
Finished == { j \in 1..Len(futs) : futs[j].st = "finished" }
Raised == { j \in 1..Len(futs) : futs[j].st = "raised" }
\* the jobs whose append to the log has finished, and the result of such a job
Returning == { wk[w].job : w \in { v \in Workers : wk[v].pc = "return" } }
Appended == Finished \cup Returning
ResOf(j) ==
  IF j \in Finished THEN futs[j].res
  ELSE wk[CHOOSE w \in Workers : wk[w].job = j].res
DataRows == LET rows == Rows(log) IN [i \in 1..(Len(rows) - 1) |-> rows[i + 1]]

\* C1: when main returns, it returns 127 if the engine was not found;
\* otherwise 0 if no eligible input was found or a dry run was asked for;
\* otherwise 1 if some collected result has a non-zero exit code and is not a
\* skip, and 0 if none has.  127 is returned for no other reason.
C1_MainReturnValue ==
  pc = "returned" =>
    /\ ret = IF ~exeFound THEN 127
             ELSE IF inputs = << >> \/ argv.dry_run THEN 0
             ELSE IF \E i \in 1..Len(results) :
                       results[i].returncode # 0 /\ results[i].log_head # SkipText
                    THEN 1 ELSE 0
    /\ (ret = 127 => ~exeFound)

\* a run returned 1 although an engine invocation itself exited with 127
C1_Witness ==
  /\ pc = "returned" /\ ret = 1 /\ exeFound
  /\ \E i \in 1..Len(results) : results[i].returncode = 127
  /\ \E i \in 1..Len(results) : results[i].returncode = 1

\* C2: in a dry run no step creates a directory, creates or writes the log,
\* or invokes the engine, and a dry run that planned jobs reports them and
\* returns 0.
C2_DryRunNoEffects ==
  [][argv.dry_run =>
       /\ dirs' = dirs /\ files' = files
       /\ logExists' = logExists /\ log' = log
       /\ engine' = engine /\ futs' = futs
       /\ (pc' = "returned" /\ exeFound /\ inputs' # << >> =>
             ret' = 0 /\ printed' = jobs')]_vars

\* C3: when the engine is not found, main returns 127 right after the lookup:
\* no input is expanded, no job planned or submitted, the engine never
\* invoked, the log neither created nor written, no directory created.
C3_EngineMissing ==
  [][~exeFound =>
       /\ dirs' = dirs /\ files' = files
       /\ logExists' = logExists /\ log' = log
       /\ engine' = {} /\ inputs' = << >> /\ jobs' = << >> /\ futs' = << >>
       /\ pc' \in {"parse", "which", "returned", "exited"}
       /\ (pc' = "returned" => ret' = 127)]_vars

\* the lookup failed and main returned
C3_Witness == ~exeFound /\ pc = "returned" /\ ret = 127 /\ args # NoArgs

\* the guards of the actions of Next: some thread can take a step
SomeStepEnabled ==
  \/ pc \in {"parse", "which", "expand", "plan", "header"}
  \/ pc = "submit" /\ Len(futs) < Len(jobs)
  \/ pc = "collect" /\ (Finished \cup Raised) \ collected # {}
  \/ pc = "unwind" /\ queue = << >> /\ \A w \in Workers : wk[w].pc = "idle"
  \/ pc = "summary" /\ queue = << >> /\ \A w \in Workers : wk[w].pc = "idle"
  \/ \E w \in Workers : wk[w].pc \in {"check", "engine", "running", "log", "close", "return"}
  \/ \E w \in Workers :
       /\ w \in PoolThreads(args.jobs) /\ wk[w].pc = "idle" /\ queue # << >>
       /\ \A v \in 1..(w - 1) : wk[v].pc # "idle"

\* C4: however the engine invocations end, the run is never stopped before
\* main returns; main is only left without returning before any job is
\* planned; and when main returns after dispatching, every planned job was
\* run (skipped or given to the engine), has its row in the log and its
\* result collected, and the tally and the final status were produced.
C4_FailuresIsolated ==
  /\ (pc \notin {"returned", "exited"} => SomeStepEnabled)
  /\ (pc \in {"exited", "raised"} => jobs = << >> /\ futs = << >> /\ ret = 2)
  /\ (pc = "returned" /\ exeFound /\ inputs # << >> /\ ~argv.dry_run =>
        /\ summary # NoSummary /\ summary.inputs = Len(jobs)
        /\ summary.failures = failures
        /\ ret \in {0, 1}
        /\ Len(futs) = Len(jobs) /\ Len(results) = Len(jobs)
        /\ \A j \in 1..Len(jobs) :
             /\ futs[j].st = "finished" /\ j \in collected
             /\ j \in EngineJobs \/ futs[j].res = SkipResult(jobs[j].inp, jobs[j].out)
             /\ \E i \in 1..Len(DataRows) : DataRows[i] = LogRow(futs[j].res)
             /\ \E i \in 1..Len(results) : results[i] = futs[j].res)

\* C5: from the first submission on, the log is the header followed by
\* exactly one complete row for each job whose append has finished, nothing
\* else, in every interleaving; and when the dispatcher is done with N jobs
\* (main has returned after dispatching, or has been left) the log holds
\* exactly N data rows.
C5_LogRows ==
  pc \in {"submit", "collect", "summary", "unwind", "raised"} \/ Dispatched =>
    LET rows == Rows(log)
        data == DataRows
        rowOf(j) == LogRow(ResOf(j))
    IN /\ rows # << >> /\ rows[1] = HeaderRow
       /\ Len(data) = Cardinality(Appended)
       /\ \A r \in { data[i] : i \in 1..Len(data) } \cup { rowOf(j) : j \in Appended } :
            Cardinality({ i \in 1..Len(data) : data[i] = r })
              = Cardinality({ j \in Appended : rowOf(j) = r })
       /\ (Dispatched \/ pc = "raised" => Len(data) = Len(jobs))

\* C6: over any number of runs that start from an absent or empty log, a log
\* that is not empty starts with the header row, every other row is a data
\* row (never a header), and ensuring the header on a log that is not empty
\* leaves the log as it is.
C6_OneHeader ==
  /\ [](log # << >> =>
          LET rows == Rows(log)
          IN /\ rows[1] = HeaderRow
             /\ \A i \in 2..Len(rows) :
                  /\ rows[i] # HeaderRow
                  /\ Len(rows[i]) = 7 /\ rows[i][1] = <<"now">> /\ rows[i][7] = EOL)
  /\ [][pc = "header" /\ log # << >> => log' = log /\ logExists' = logExists]_vars

\* a second run has passed the header check on a log that held data rows
C6_Witness == run = 2 /\ pc = "submit" /\ Len(Rows(log)) >= 2

\* C7: when run_ocr's check finds overwrite off and the output path present,
\* the result is (0, 0, skip text) and the engine is not invoked; in every
\* other case the engine is invoked.
C7_SkipShortCircuit ==
  [][\A w \in Workers :
       /\ (wk[w].pc = "check" /\ wk'[w] # wk[w] =>
             LET job == jobs[wk[w].job]
             IN IF ~argv.overwrite /\ Exists(job.out, files, dirs)
                  THEN /\ wk'[w].pc = "log"
                       /\ wk'[w].res = JobResult(job.inp, job.out, 0, 0, SkipText)
                       /\ engine' = engine
                  ELSE wk'[w].pc = "engine")
       /\ (wk[w].pc = "engine" /\ wk'[w] # wk[w] =>
             wk[w].job \notin EngineJobs /\ wk[w].job \in { e.job : e \in engine' })
       /\ (wk[w].pc # "engine" \/ wk'[w] = wk[w] =>
             \A e \in engine' \ engine : e.job # wk[w].job)]_vars

\* a job was skipped: its result is the skip result and the engine was not
\* invoked for it
C7_Witness ==
  \E w \in Workers :
    /\ wk[w].pc = "log"
    /\ wk[w].res = SkipResult(jobs[wk[w].job].inp, jobs[wk[w].job].out)
    /\ wk[w].job \notin EngineJobs
    /\ ~argv.overwrite

\* C8: the resolved output of every planned job differs from its resolved
\* input, and a job whose first computed output resolves to its input gets
\* that output's stem followed by _out.
C8_OutputNotInput ==
  \A i \in 1..Len(jobs) :
    LET inp == jobs[i].inp
        first == BuildOutputPath(inp, args.output, args.inplace, argv.suffix)
    IN /\ Resolve(jobs[i].out) # Resolve(inp)
       /\ IF Resolve(first) = Resolve(inp)
            THEN jobs[i].out = P(first.dir, PyStem(inp.name) \o argv.suffix \o OutMarker \o DotPdf)
            ELSE jobs[i].out = first

\* C9: any two different inputs of the planned job list have different
\* output paths.
C9_DistinctOutputs ==
  \A i, k \in 1..Len(jobs) :
    jobs[i].inp # jobs[k].inp => jobs[i].out # jobs[k].out

\* C10 as stated: executable, force-OCR or skip-text flag, archival flag when
\* asked for, passthrough arguments, --optimize 3 --language lang, input,
\* output.
C10_CmdShapeAsStated ==
  \A e \in engine :
    LET job == jobs[e.job]
    IN e.cmd = <<exe>>
         \o <<IF argv.force THEN <<"--force-ocr">> ELSE <<"--skip-text">> >>
         \o (IF argv.pdfa THEN << <<"--pdfa-2">> >> ELSE << >>)
         \o argv.extra
         \o << <<"--optimize">>, <<"3">>, <<"--language">>, argv.lang,
               StrOf(job.inp), StrOf(job.out)>>

\* C10 as amended: executable, passthrough arguments in their order, archival
\* flag when asked for, force-OCR or skip-text flag, --optimize 3 --language
\* lang, input, output last.
C10_CmdShape ==
  \A e \in engine :
    LET job == jobs[e.job]
    IN e.cmd = <<exe>>
         \o argv.extra
         \o (IF argv.pdfa THEN << <<"--pdfa-2">> >> ELSE << >>)
         \o <<IF argv.force THEN <<"--force-ocr">> ELSE <<"--skip-text">> >>
         \o << <<"--optimize">>, <<"3">>, <<"--language">>, argv.lang,
               StrOf(job.inp), StrOf(job.out)>>

\* the engine was invoked with two passthrough arguments, the archival flag
\* and the force flag
C10_Witness ==
  \E e \in engine :
    /\ Len(argv.extra) = 2 /\ argv.extra[1] # argv.extra[2]
    /\ argv.pdfa /\ argv.force
    /\ Len(e.cmd) = 11

\* what the specifications of argv discovered, one after the other, before
\* anything was removed
Discovery == paths
FirstIndex(x, s) == CHOOSE i \in 1..Len(s) : s[i] = x /\ \A k \in 1..(i - 1) : s[k] # x
Expanded == exe # NoExe /\ pc \in {"plan", "returned"}

\* C11: for every list of input specifications, expand_inputs returns each
\* distinct path of the concatenated discovery exactly once, the paths ordered
\* by their first occurrence in it; a path reached through two specifications
\* (one repeated, a file and a glob, two globs) appears once.
C11_DedupeFirstSeen ==
  Expanded =>
    /\ \A i, k \in 1..Len(inputs) : i # k => inputs[i] # inputs[k]
    /\ { inputs[i] : i \in 1..Len(inputs) } = { Discovery[i] : i \in 1..Len(Discovery) }
    /\ \A i, k \in 1..Len(inputs) :
         i < k => FirstIndex(inputs[i], Discovery) < FirstIndex(inputs[k], Discovery)

\* two globs and a file overlap: a.pdf was discovered three times and a.png
\* once between them, and each is returned once, a.pdf first
C11_Witness ==
  /\ Expanded
  /\ argv.inputs = <<R_glob_pdf, R_glob_a, R_a_pdf>>
  /\ Len(Discovery) = 4
  /\ inputs = <<R_a_pdf, R_a_png>>

\* the regular files with an allowed suffix (in any case) in the directories
\* of scope, spelled below them
EligibleFiles(scope) ==
  { q \in { P(w, n) : w \in scope, n \in { f.name : f \in files } } :
      IsFile(q, files) /\ Eligible(q.name) }

\* d and the directories at any depth below it
RECURSIVE DirsBelow(_)
DirsBelow(d) == {d} \cup UNION { DirsBelow(s) : s \in SubDirs(d, dirs) }

\* C12: for an existing directory input, expand_inputs returns exactly the
\* regular files whose lowercased suffix is allowed: those directly in the
\* directory without recursion, those at any depth with recursion, by the same
\* test in both modes; and nothing that fails the test is returned for any
\* input.
C12_DirectoryInputs ==
  Expanded =>
    /\ \A i \in 1..Len(inputs) : IsFile(inputs[i], files) /\ Eligible(inputs[i].name)
    /\ (Len(argv.inputs) = 1 /\ IsDir(argv.inputs[1], dirs) =>
          LET d == AsDir(argv.inputs[1])
              scope == IF argv.recursive THEN DirsBelow(d) ELSE {d}
          IN { inputs[i] : i \in 1..Len(inputs) } = EligibleFiles(scope))

ConfigError == (argv.output # NoDir /\ argv.inplace) \/ argv.jobs < 1

\* C13: when both an output directory and in-place are asked for, or fewer
\* than one worker, parse_args ends the process with status 2 and nothing else
\* has happened or happens: no engine lookup, no input expanded, no directory
\* created, no log created or written, no job planned, submitted or run.
C13_ConfigErrorFirst ==
  [][ConfigError =>
       /\ pc' \in {"parse", "exited"}
       /\ (pc' = "exited" => ret' = 2)
       /\ exe' = NoExe /\ inputs' = << >> /\ jobs' = << >> /\ printed' = << >>
       /\ futs' = << >> /\ queue' = << >> /\ engine' = {}
       /\ dirs' = dirs /\ files' = files
       /\ logExists' = logExists /\ log' = log]_vars

\* the process ended in parse_args because of the worker count alone
C13_Witness ==
  /\ pc = "exited" /\ ret = 2
  /\ argv.jobs = 0 /\ ~(argv.output # NoDir /\ argv.inplace)
  /\ exe = NoExe /\ dirs = Dirs0 /\ log = << >>

\* the jobs a worker has taken (from its skip check on) whose log append has
\* not finished
InFlight == { j \in 1..Len(futs) : futs[j].st = "running" }

\* C14: at every moment the number of jobs that have started and whose log
\* append has not finished is at most the configured worker count, and the
\* worker count of a run that got past parse_args is at least 1.
C14_BoundedPool ==
  /\ Cardinality(InFlight) <= args.jobs
  /\ Cardinality({ w \in Workers : wk[w].pc # "idle" }) = Cardinality(InFlight)
  /\ (pc \notin {"parse", "exited"} => args.jobs >= 1)

\* as many jobs are in flight as there are workers, and another job waits
C14_Witness ==
  /\ args.jobs >= 2 /\ Cardinality(InFlight) = args.jobs
  /\ queue # << >>

\* the row of job j is in the log (the inputs of the jobs of a run differ, and
\* a row names its job's input in its second cell)
RowAmong(j, data) == \E i \in 1..Len(data) : data[i][2] = StrOf(jobs[j].inp)
RowIn(j) == RowAmong(j, DataRows)
\* run_ocr has returned for job j: it was skipped, or its engine has ended
Decided(j) ==
  \/ futs[j].st = "finished"
  \/ \E w \in Workers : wk[w].job = j /\ wk[w].pc \in {"log", "close", "return"}
\* job j was skipped or given to the engine
Ran(j) == j \in EngineJobs \/ futs[j].res = SkipResult(jobs[j].inp, jobs[j].out)

\* C15: for every job, the log starts with the header before the job is
\* submitted or started; the job's row is in the log only after its skip
\* decision or its engine invocation has completed; its result is collected
\* only after its row is in the log; and every write to the log other than the
\* header is made to a log that starts with the header.
C15_EventOrder ==
  /\ [](futs # << >> =>
          /\ logExists /\ log # << >> /\ SubSeq(log, 1, Len(HeaderRow)) = HeaderRow
          /\ LET data == DataRows
             IN \A j \in 1..Len(futs) :
                  /\ (RowAmong(j, data) <=> j \in Appended)
                  /\ (j \in Appended => Decided(j))
                  /\ (j \in collected => j \in Finished /\ RowAmong(j, data)))
  /\ [][log' # log =>
         \/ log' = HeaderRow /\ futs = << >> /\ futs' = << >>
         \/ /\ log # << >> /\ SubSeq(log, 1, Len(HeaderRow)) = HeaderRow
            /\ \E w \in Workers :
                 /\ wk[w].pc = "close" /\ Decided(wk[w].job)
                 /\ log' = log \o LogRow(wk[w].res)
                 /\ wk[w].job \notin collected
                 /\ futs[wk[w].job].st = "running"
                 /\ futs'[wk[w].job].st = "running"]_vars

\* one job's result has been collected, its row being in the log, while the
\* engine is still to run for another job
C15_Witness ==
  /\ \E j \in collected : RowIn(j) /\ j \in EngineJobs
  /\ \E w \in Workers : wk[w].pc = "engine" /\ ~RowIn(wk[w].job)

\* C16: with every started engine ending and every thread scheduled fairly,
\* a run that has planned its jobs eventually returns from main after
\* dispatching, and at that return every planned job was run (skipped or
\* given to the engine), each job's result was collected exactly once, the
\* collected results are as many as the planned jobs, processed + skipped is
\* that number, and failures is at most processed.
C16_AllJobsCollected ==
  /\ (pc = "header") ~> Dispatched
  /\ [](Dispatched =>
          /\ Len(results) = Len(jobs) /\ collected = 1..Len(jobs)
          /\ \A j \in 1..Len(jobs) :
               /\ Ran(j)
               /\ Cardinality({ i \in 1..Len(results) :
                                  results[i].input_path = jobs[j].inp }) = 1
          /\ summary.processed + summary.skipped = Len(jobs)
          /\ summary.failures <= summary.processed)

\* the data rows earlier runs left in the log: all but the rows of the jobs
\* that have finished in this run
PrevRows == SubSeq(DataRows, 1, Len(DataRows) - Cardinality(Appended))

\* the path a log row names in its Output column (StrOf read backwards)
RowOutput(row) == [dir |-> row[3][1], name |-> SubSeq(row[3], 3, Len(row[3]))]

\* the file f was there when this run began: it is there, and no engine of
\* this run was started for it while it was absent (files are never removed)
ThereAtRunStart(f) ==
  /\ f \in files
  /\ \A e \in engine : Resolve(jobs[e.job].out) = f => e.existed

\* this is the second run, the first returned 0, and in it every job was
\* given to the engine, which exited with 0 and left the job's output file
FirstRunAllCreated ==
  /\ run = 2 /\ prevRet = 0 /\ Len(PrevRows) >= 1
  /\ \A i \in 1..Len(PrevRows) :
       /\ PrevRows[i][4] = IntStr(0) /\ PrevRows[i][5] # DurStr(0)
       /\ ThereAtRunStart(Resolve(RowOutput(PrevRows[i])))

\* C17: after a run in which every job succeeded and its engine invocation
\* created its output, a second run with the same arguments and overwrite off
\* invokes the engine for no job, every one of its results is a skip, it
\* creates no file, and it returns 0.
C17_RerunIdempotent ==
  FirstRunAllCreated /\ ~argv.overwrite =>
    /\ engine = {}
    /\ \A i \in 1..Len(results) : results[i].log_head = SkipText /\ results[i].returncode = 0
    /\ (pc = "returned" => ret = 0)

\* C18: with overwrite off, no engine invocation is made for an output path
\* that exists when the engine is started, in any interleaving of the
\* workers, and no two engine invocations of a run have the same output path.
C18_NoOverwrite ==
  ~argv.overwrite =>
    /\ \A e \in engine : ~e.existed
    /\ \A e1, e2 \in engine :
         e1.job # e2.job => Resolve(jobs[e1.job].out) # Resolve(jobs[e2.job].out)

\* C19: when main has returned after dispatching, the jobs counted as skipped
\* are exactly the jobs the engine was not invoked for; every job whose engine
\* invocation exited with a code other than 0 is counted as a failure and
\* makes the final status non-zero, whatever the engine wrote; and the
\* processed count is the number of engine invocations.
C19_SkipIffNotInvoked ==
  Dispatched =>
    LET failed == { j \in EngineJobs : futs[j].res.returncode # 0 }
    IN /\ summary.skipped = Cardinality({ j \in 1..Len(jobs) : j \notin EngineJobs })
       /\ summary.failures = Cardinality(failed)
       /\ (failed # {} => ret # 0)
       /\ summary.processed = Cardinality(engine)

====
